---- MODULE Spec2Model ----
(***************************************************************************)
(* Model of src/src/csv_parse.py: create_nutrition_csvs_final, the batch   *)
(* pipeline that turns the USDA tables into foods_per_100g.csv and         *)
(* foods_per_serving.csv.                                                  *)
(*                                                                         *)
(* Numbers.  A float x of the program is the integer x * 10^8 (One is      *)
(* 1.0).  Raw amounts and gram weights of the inputs are whole numbers, so *)
(* amount * factor (factor 1, 0.001 or 1e-6) and value * (grams / 100) are *)
(* exact in this representation.                                           *)
(* A NaN cell is the empty sequence <<>>, a number v is <<v>>.             *)
(* A composite column name is the string the program builds.               *)
(***************************************************************************)
EXTENDS Integers, Sequences, FiniteSets, TLC

\* ------------------------------------------------------------ number model

\* 1.0
One == 100 * 1000 * 1000

\* the fill value -1.0 (lines 203, 204, 212, 290)
SENTINEL == 0 - One

NaN == << >>

notna(x) == x # NaN

\* ------------------------------------------------------------ configuration

\* line 46
VALID_FOOD_TYPES ==
    {"foundation_food", "sr_legacy_food", "survey_fndds_food", "branded_food"}

\* lines 49-53
UNIT_TO_GRAM_FACTOR ==
    [u \in {"G", "MG", "UG"} |->
        CASE u = "G"  -> One
          [] u = "MG" -> One \div 1000
          [] u = "UG" -> One \div 1000000]

\* a faulty variant: food_category.csv is not read
REQUIRED_FILES_without_category ==
    << "food.csv", "nutrient.csv", "food_nutrient.csv",
       "food_portion.csv", "measure_unit.csv" >>

\* the files read by lines 61-66, in the order they are read
REQUIRED_FILES ==
    << "food.csv", "nutrient.csv", "food_nutrient.csv",
       "food_portion.csv", "measure_unit.csv", "food_category.csv" >>

\* line 70
BRANDED_FILE == "branded_food.csv"

OUT_100G == "foods_per_100g.csv"

OUT_SERVING == "foods_per_serving.csv"

RequiredSet == {REQUIRED_FILES[i] : i \in DOMAIN REQUIRED_FILES}

AllFiles == RequiredSet \cup {BRANDED_FILE}

\* ------------------------------------------------------------ bounds and input domains

\* longest food_nutrient.csv read
MaxMeasurements == 2

\* longest food_portion.csv read
MaxPortions == 1

FoodIds == {1, 2, 3}

NutrientIds == {1, 2}

\* data_type values met in food.csv: one of the allow-list, one outside it
InputDataTypes == {"branded_food", "sample_food"}

\* rows of nutrient.csv (name, unit_name)
NutrientRows ==
    { [name |-> "Protein", unit_name |-> "G"],
      [name |-> "Iron",    unit_name |-> "MG"],
      [name |-> "Iron",    unit_name |-> "UG"],
      [name |-> "Energy",  unit_name |-> "KCAL"] }

\* raw amounts of food_nutrient.csv
Amounts == {-1, 2}

\* gram_weight values of food_portion.csv: missing, zero, and two weights
GramWeights == {NaN, <<0>>, <<50>>, <<100>>}

\* measure_unit.csv as read: id -> name
MeasureUnitTable == (1 :> "cup")

\* measure_unit_id values of food_portion.csv; 2 has no row in measure_unit.csv
MeasureUnitRefs == {1, 2}

PortionDescriptions == {"", "slice"}

SeqsUpTo(S, n) == UNION {[1..k -> S] : k \in 0..n}

FoodTables == [FoodIds -> [data_type : InputDataTypes]]

NutrientTables == [NutrientIds -> NutrientRows]

MeasurementRows == [fdc_id : FoodIds, nutrient_id : NutrientIds, amount : Amounts]

PortionRows ==
    [fdc_id : FoodIds, measure_unit_id : MeasureUnitRefs, gram_weight : GramWeights,
     portion_description : PortionDescriptions, amount : {"1.0"}]

\* ------------------------------------------------------------ 2. nutrient mappings

\* line 87: unit_name.map(UNIT_TO_GRAM_FACTOR).fillna(1.0)
conversion_factor(unit_name) ==
    IF unit_name \in DOMAIN UNIT_TO_GRAM_FACTOR THEN UNIT_TO_GRAM_FACTOR[unit_name] ELSE One

\* line 88
final_unit(unit_name) ==
    IF unit_name \in DOMAIN UNIT_TO_GRAM_FACTOR THEN "G" ELSE unit_name

\* line 89
column_name(name, unit_name) == name \o " (" \o final_unit(unit_name) \o ")"

\* line 91
id_to_column(nutrient) ==
    [i \in DOMAIN nutrient |-> column_name(nutrient[i].name, nutrient[i].unit_name)]

\* line 92
id_to_converter(nutrient) ==
    [i \in DOMAIN nutrient |-> conversion_factor(nutrient[i].unit_name)]

\* line 94: the column universe (sorted and unique in the program; its order is
\* not observed by any property below, so it is kept as a set)
all_nutrient_columns(nutrient) ==
    {column_name(nutrient[i].name, nutrient[i].unit_name) : i \in DOMAIN nutrient}

\* ------------------------------------------------------------ 3. food filter

\* line 102: data_type.isin(VALID_FOOD_TYPES)
is_valid_type(data_type) == data_type \in VALID_FOOD_TYPES

\* lines 102, 173: the fdc_id of the foods kept (category, brand and ingredient
\* enrichment, lines 104-171, are left joins that neither add nor remove a food)
valid_fdc_ids(food) == {f \in DOMAIN food : is_valid_type(food[f].data_type)}

\* ------------------------------------------------------------ 4./5. wide table

\* line 181
fn_filtered(food_nutrient, valid) ==
    LET keep(r) == r.fdc_id \in valid IN SelectSeq(food_nutrient, keep)

\* lines 182-183, 189-190: one pivot-ready row per measurement
pivot_ready_row(r, nutrient) ==
    [fdc_id      |-> r.fdc_id,
     column_name |-> id_to_column(nutrient)[r.nutrient_id],
     amount_std  |-> r.amount * id_to_converter(nutrient)[r.nutrient_id]]

pivot_ready(rows, nutrient) ==
    [i \in DOMAIN rows |-> pivot_ready_row(rows[i], nutrient)]

\* line 191: the subset of drop_duplicates
same_key(a, b) == a.fdc_id = b.fdc_id /\ a.column_name = b.column_name

\* a faulty variant: keep="last"
RECURSIVE drop_duplicates_keep_last(_)
drop_duplicates_keep_last(rows) ==
    IF rows = << >> THEN << >>
    ELSE LET tail == drop_duplicates_keep_last(Tail(rows))
         IN  IF \E i \in 2..Len(rows) : same_key(rows[i], rows[1])
             THEN tail
             ELSE << rows[1] >> \o tail

\* line 191: drop_duplicates keeps the first row of each key, in input order
RECURSIVE drop_duplicates(_)
drop_duplicates(rows) ==
    IF rows = << >> THEN << >>
    ELSE LET n    == Len(rows)
             head == drop_duplicates(SubSeq(rows, 1, n - 1))
         IN  IF \E i \in 1..(n - 1) : same_key(rows[i], rows[n])
             THEN head
             ELSE Append(head, rows[n])

\* lines 197-201: one row per fdc_id met, one column per column_name met; a pair
\* with no row is NaN
pivot(rows) ==
    LET idx  == {rows[i].fdc_id : i \in DOMAIN rows}
        cols == {rows[i].column_name : i \in DOMAIN rows}
        cell(f, c) ==
            IF \E i \in DOMAIN rows : rows[i].fdc_id = f /\ rows[i].column_name = c
            THEN LET i == CHOOSE i \in DOMAIN rows :
                              rows[i].fdc_id = f /\ rows[i].column_name = c
                 IN  << rows[i].amount_std >>
            ELSE NaN
    IN  [f \in idx |-> [c \in cols |-> cell(f, c)]]

\* line 203: reindex(columns=..., fill_value=...): a new column is filled, a
\* column already there keeps its cells, NaN included
reindex(wide, columns, fill_value) ==
    [f \in DOMAIN wide |->
        [c \in columns |-> IF c \in DOMAIN wide[f] THEN wide[f][c] ELSE << fill_value >>]]

\* line 204: after it every cell is a number
fillna(wide, value) ==
    [f \in DOMAIN wide |->
        [c \in DOMAIN wide[f] |-> IF notna(wide[f][c]) THEN wide[f][c][1] ELSE value]]

\* lines 181-204
wide_all_cols(food_nutrient, nutrient, valid) ==
    fillna(reindex(pivot(drop_duplicates(pivot_ready(fn_filtered(food_nutrient, valid),
                                                     nutrient))),
                   all_nutrient_columns(nutrient), SENTINEL),
           SENTINEL)

\* line 212
missing_count(wide, col) == Cardinality({f \in DOMAIN wide : wide[f][col] = SENTINEL})

\* lines 207, 208, 213: missing_count > total_foods / 2.0
is_sparse(missing, total_foods) == 2 * missing > total_foods

\* lines 209-214
columns_to_drop(wide, columns) ==
    {c \in columns : is_sparse(missing_count(wide, c), Cardinality(DOMAIN wide))}

\* lines 216-223
drop_columns(wide, dropped) ==
    [f \in DOMAIN wide |-> [c \in (DOMAIN wide[f]) \ dropped |-> wide[f][c]]]

\* lines 232-240: inner join of the kept foods with the wide table on fdc_id
merge_100g(valid, wide) == [f \in valid \cap DOMAIN wide |-> wide[f]]

\* ------------------------------------------------------------ 7. servings

\* a faulty variant: gram_weight >= 0
portion_ok_zero_weight(r, valid) ==
    /\ r.fdc_id \in valid
    /\ notna(r.gram_weight)
    /\ r.gram_weight[1] >= 0

\* lines 252-256
portion_ok(r, valid) ==
    /\ r.fdc_id \in valid
    /\ notna(r.gram_weight)
    /\ r.gram_weight[1] > 0

portion_filtered(portion, valid) ==
    LET keep(r) == portion_ok(r, valid) IN SelectSeq(portion, keep)

\* line 263: inner join with measure_unit on measure_unit_id = id
portion_full(portions, measure_unit) ==
    LET keep(r) == r.measure_unit_id \in DOMAIN measure_unit IN SelectSeq(portions, keep)

\* lines 265-269
serving_description(r, measure_unit) ==
    IF r.portion_description # ""
    THEN r.portion_description
    ELSE r.amount \o " " \o measure_unit[r.measure_unit_id]

\* lines 271-273: the three columns kept, duplicates dropped
servings_base(full, measure_unit) ==
    { [fdc_id              |-> full[i].fdc_id,
       serving_description |-> serving_description(full[i], measure_unit),
       serving_size_g      |-> full[i].gram_weight[1]] : i \in DOMAIN full }

\* a faulty variant: the sentinel is scaled like any value
scale_cell_sentinel_too(value, serving_size_g) == (value \div 100) * serving_size_g

\* a faulty variant: the value is copied, not scaled
scale_cell_unscaled(value, serving_size_g) == value

\* line 290: row[col] * (serving_size_g / 100.0) if row[col] != -1.0 else -1.0
\* (every cell is a multiple of 100 units, so the division is exact)
scale_cell(value, serving_size_g) ==
    IF value # SENTINEL THEN (value \div 100) * serving_size_g ELSE SENTINEL

\* lines 278-292: inner join with the wide table on fdc_id, then the scaling loop
per_serving(base, wide) ==
    { [fdc_id              |-> s.fdc_id,
       serving_description |-> s.serving_description,
       serving_size_g      |-> s.serving_size_g,
       nutrients           |-> [c \in DOMAIN wide[s.fdc_id] |->
                                    scale_cell(wide[s.fdc_id][c], s.serving_size_g)]]
      : s \in {b \in base : b.fdc_id \in DOMAIN wide} }

\* lines 295-298: inner join with the kept foods on fdc_id
per_serving_final(rows, valid) == {r \in rows : r.fdc_id \in valid}

\* ------------------------------------------------------------ state

VARIABLES
    pc,                    \* where the run is: start, loaded, filtered, written_100g, returned
    outcome,               \* running, missing_file, no_valid_foods, all_done, exception
    present,               \* the files of the input folder
    reported,              \* the file name printed by line 77 ("" when none)
    df_food,               \* food.csv as read: fdc_id -> row
    df_nutrient,           \* nutrient.csv as read: id -> row
    df_food_nutrient,      \* food_nutrient.csv as read, in input order
    df_portion,            \* food_portion.csv as read, in input order
    df_measure_unit,       \* measure_unit.csv as read: id -> name
    df_branded,            \* "unset", "loaded" or "None"
    all_valid_fdc_ids,     \* line 173
    df_wide_filtered,      \* lines 218, 222: fdc_id -> column -> number
    final_nutrient_columns,\* lines 219, 223
    written,               \* the output files written, in the order written
    csv_100g,              \* the rows of foods_per_100g.csv: fdc_id -> column -> number
    csv_serving            \* the rows of foods_per_serving.csv

vars ==
    << pc, outcome, present, reported, df_food, df_nutrient, df_food_nutrient,
       df_portion, df_measure_unit, df_branded, all_valid_fdc_ids, df_wide_filtered,
       final_nutrient_columns, written, csv_100g, csv_serving >>

tables == << df_food, df_nutrient, df_food_nutrient, df_portion, df_measure_unit, df_branded >>

derived == << all_valid_fdc_ids, df_wide_filtered, final_nutrient_columns >>

outputs == << written, csv_100g, csv_serving >>

\* the state when create_nutrition_csvs_final is entered: any input folder
Init ==
    /\ pc = "start"
    /\ outcome = "running"
    /\ present \in SUBSET AllFiles
    /\ reported = ""
    /\ df_food = << >>
    /\ df_nutrient = << >>
    /\ df_food_nutrient = << >>
    /\ df_portion = << >>
    /\ df_measure_unit = << >>
    /\ df_branded = "unset"
    /\ all_valid_fdc_ids = {}
    /\ df_wide_filtered = << >>
    /\ final_nutrient_columns = {}
    /\ written = << >>
    /\ csv_100g = << >>
    /\ csv_serving = {}

\* ------------------------------------------------------------ 1. load

\* lines 61-66 read the required files in order: the first one missing raises
first_missing(files) ==
    LET i == CHOOSE i \in DOMAIN REQUIRED_FILES :
                 /\ REQUIRED_FILES[i] \notin files
                 /\ \A j \in 1..(i - 1) : REQUIRED_FILES[j] \in files
    IN  REQUIRED_FILES[i]

\* lines 59-66, 76-79: a required file is missing
LoadMissing ==
    /\ pc = "start"
    /\ ~(RequiredSet \subseteq present)
    /\ reported' = first_missing(present)
    /\ outcome' = "missing_file"
    /\ pc' = "returned"
    /\ UNCHANGED << present, tables, derived, outputs >>

\* lines 59-75, 81: every required file is read; branded_food.csv is optional
Load(foods, nutrients, measurements, portions) ==
    /\ pc = "start"
    /\ RequiredSet \subseteq present
    /\ df_food' \in foods
    /\ df_nutrient' \in nutrients
    /\ df_food_nutrient' \in measurements
    /\ df_portion' \in portions
    /\ df_measure_unit' = MeasureUnitTable
    /\ df_branded' = IF BRANDED_FILE \in present THEN "loaded" ELSE "None"
    /\ pc' = "loaded"
    /\ UNCHANGED << outcome, present, reported, derived, outputs >>

\* ------------------------------------------------------------ 2./3. mappings and food filter

\* lines 83-179
FilterFoods ==
    /\ pc = "loaded"
    /\ LET valid == valid_fdc_ids(df_food)
       IN  IF valid = {}
           THEN /\ outcome' = "no_valid_foods"
                /\ pc' = "returned"
                /\ UNCHANGED all_valid_fdc_ids
           ELSE /\ all_valid_fdc_ids' = valid
                /\ pc' = "filtered"
                /\ UNCHANGED outcome
    /\ UNCHANGED << present, reported, tables, df_wide_filtered, final_nutrient_columns,
                    outputs >>

\* ------------------------------------------------------------ 4.-6. wide table and foods_per_100g.csv

\* lines 181-246
WritePer100g ==
    /\ pc = "filtered"
    /\ LET all_cols == all_nutrient_columns(df_nutrient)
           wide     == wide_all_cols(df_food_nutrient, df_nutrient, all_valid_fdc_ids)
           dropped  == columns_to_drop(wide, all_cols)
           filtered == drop_columns(wide, dropped)
       IN  /\ df_wide_filtered' = filtered
           /\ final_nutrient_columns' = all_cols \ dropped
           /\ csv_100g' = merge_100g(all_valid_fdc_ids, filtered)
    /\ written' = Append(written, OUT_100G)
    /\ pc' = "written_100g"
    /\ UNCHANGED << outcome, present, reported, tables, all_valid_fdc_ids, csv_serving >>

\* ------------------------------------------------------------ 7. foods_per_serving.csv

\* lines 265 and 289 assign the result of DataFrame.apply(axis=1) to one column.
\* Over a frame with no rows apply returns the (empty, many-column) frame itself,
\* and the assignment raises ValueError.
apply_over_empty_frame ==
    LET valid_portions == portion_filtered(df_portion, all_valid_fdc_ids)
        full           == portion_full(valid_portions, df_measure_unit)
        base           == servings_base(full, df_measure_unit)
    IN  \/ full = << >>
        \/ /\ {b \in base : b.fdc_id \in DOMAIN df_wide_filtered} = {}
           /\ final_nutrient_columns # {}

\* lines 252-261
ServingSkipped ==
    /\ pc = "written_100g"
    /\ portion_filtered(df_portion, all_valid_fdc_ids) = << >>
    /\ outcome' = "all_done"
    /\ pc' = "returned"
    /\ UNCHANGED << present, reported, tables, derived, outputs >>

\* lines 263-292: the run dies with the uncaught ValueError
ServingRaises ==
    /\ pc = "written_100g"
    /\ portion_filtered(df_portion, all_valid_fdc_ids) # << >>
    /\ apply_over_empty_frame
    /\ outcome' = "exception"
    /\ pc' = "returned"
    /\ UNCHANGED << present, reported, tables, derived, outputs >>

\* lines 263-311
WritePerServing ==
    /\ pc = "written_100g"
    /\ portion_filtered(df_portion, all_valid_fdc_ids) # << >>
    /\ ~apply_over_empty_frame
    /\ LET valid_portions == portion_filtered(df_portion, all_valid_fdc_ids)
           full           == portion_full(valid_portions, df_measure_unit)
           base           == servings_base(full, df_measure_unit)
       IN  csv_serving' = per_serving_final(per_serving(base, df_wide_filtered),
                                            all_valid_fdc_ids)
    /\ written' = Append(written, OUT_SERVING)
    /\ outcome' = "all_done"
    /\ pc' = "returned"
    /\ UNCHANGED << present, reported, tables, derived, csv_100g >>

\* ------------------------------------------------------------ specifications

Pipeline ==
    \/ LoadMissing
    \/ FilterFoods
    \/ WritePer100g
    \/ ServingSkipped
    \/ ServingRaises
    \/ WritePerServing

\* Two input families.  SpecWide draws food_nutrient.csv freely and keeps one
\* portion; SpecServing draws food_portion.csv freely over a few measurement
\* tables.  Both run the same pipeline.

MeasurementTables == SeqsUpTo(MeasurementRows, MaxMeasurements)

WidePortionTables ==
    { << [fdc_id |-> 1, measure_unit_id |-> 1, gram_weight |-> <<50>>,
          portion_description |-> "", amount |-> "1.0"] >> }

LoadWide == Load(FoodTables, NutrientTables, MeasurementTables, WidePortionTables)

NextWide == LoadWide \/ Pipeline

SpecWide == Init /\ [][NextWide]_vars

Measurement(f, n, a) == [fdc_id |-> f, nutrient_id |-> n, amount |-> a]

ServingNutrientTables ==
    { (1 :> [name |-> "Protein", unit_name |-> "G"]
       @@ 2 :> [name |-> "Iron", unit_name |-> "MG"]),
      (1 :> [name |-> "Energy", unit_name |-> "KCAL"]
       @@ 2 :> [name |-> "Iron", unit_name |-> "UG"]) }

ServingMeasurementTables ==
    { << >>,
      << Measurement(1, 1, 2) >>,
      << Measurement(1, 1, -1) >>,
      << Measurement(1, 1, 2), Measurement(2, 2, 2) >>,
      << Measurement(1, 2, -1), Measurement(1, 1, 2), Measurement(2, 1, 2) >> }

PortionTables == SeqsUpTo(PortionRows, MaxPortions)

LoadServing ==
    Load(FoodTables, ServingNutrientTables, ServingMeasurementTables, PortionTables)

NextServing == LoadServing \/ Pipeline

SpecServing == Init /\ [][NextServing]_vars

\* ------------------------------------------------------------ vocabulary of the properties

Range(seq) == {seq[i] : i \in DOMAIN seq}

Wrote100g == OUT_100G \in Range(written)

WroteServing == OUT_SERVING \in Range(written)

\* the input tables have been read
TablesRead == df_branded # "unset"

\* the six required input tables, as the specification lists them
SixRequiredTables ==
    {"food.csv", "nutrient.csv", "food_nutrient.csv", "food_portion.csv",
     "measure_unit.csv", "food_category.csv"}

\* the four-tag allow-list, as the specification lists it
AllowList == {"foundation_food", "sr_legacy_food", "survey_fndds_food", "branded_food"}

\* the foods of food.csv whose data_type is in the allow-list
ValidFoods == {f \in DOMAIN df_food : df_food[f].data_type \in AllowList}

\* the conversion factor the specification gives for a unit
StatedFactor(unit_name) ==
    CASE unit_name = "G"  -> One
      [] unit_name = "MG" -> One \div 1000
      [] unit_name = "UG" -> One \div 1000000
      [] OTHER            -> One

\* the column name of the i-th row of food_nutrient.csv
MeasurementColumn(i) == id_to_column(df_nutrient)[df_food_nutrient[i].nutrient_id]

\* the rows of food_nutrient.csv of food f that map to column c
MeasurementsOf(f, c) ==
    {i \in DOMAIN df_food_nutrient :
        df_food_nutrient[i].fdc_id = f /\ MeasurementColumn(i) = c}

Measured(f, c) == MeasurementsOf(f, c) # {}

FirstMeasurement(f, c) ==
    CHOOSE i \in MeasurementsOf(f, c) : \A j \in MeasurementsOf(f, c) : i <= j

\* raw amount of the i-th measurement times the stated factor of its nutrient
StatedAmount(i) ==
    df_food_nutrient[i].amount
        * StatedFactor(df_nutrient[df_food_nutrient[i].nutrient_id].unit_name)

\* the standardized value the specification gives the pair (f, c)
StatedValue(f, c) ==
    IF Measured(f, c) THEN StatedAmount(FirstMeasurement(f, c)) ELSE SENTINEL

\* the portion records with a valid food id and a defined positive gram_weight
ValidPortions ==
    {i \in DOMAIN df_portion :
        /\ df_portion[i].fdc_id \in ValidFoods
        /\ df_portion[i].gram_weight # NaN
        /\ df_portion[i].gram_weight[1] > 0}

\* value * (grams / 100), exact on the multiples of 100 units the tables hold
Rescaled(value, grams) == (value \div 100) * grams

\* ------------------------------------------------------------ properties

\* the number of valid foods whose standardized value for column c is the sentinel
SentinelCount(c) == Cardinality({f \in ValidFoods : StatedValue(f, c) = SENTINEL})

\* C1 (as claimed): once foods_per_100g.csv is written, a column of the column
\* universe is among its columns if and only if at most half of the valid foods
\* have the sentinel for it.
C1_SparsityOverValidFoods ==
    Wrote100g =>
        \A c \in all_nutrient_columns(df_nutrient) :
            (c \in final_nutrient_columns) <=> (2 * SentinelCount(c) <= Cardinality(ValidFoods))

C3_ServingRescaling ==
    WroteServing =>
        \A r \in csv_serving :
            /\ r.fdc_id \in DOMAIN csv_100g
            /\ \A c \in final_nutrient_columns :
                   LET V == csv_100g[r.fdc_id][c]
                   IN  V # SENTINEL =>
                           /\ V % 100 = 0
                           /\ r.nutrients[c] = Rescaled(V, r.serving_size_g)
                           /\ r.serving_size_g = 100 => r.nutrients[c] = V

\* C3 happens: a per-serving row of 50 g with a non-zero, non-sentinel value.
C3_Witness ==
    /\ WroteServing
    /\ \E r \in csv_serving : \E c \in final_nutrient_columns :
           /\ r.serving_size_g = 50
           /\ csv_100g[r.fdc_id][c] \notin {SENTINEL, 0}
           /\ r.nutrients[c] # csv_100g[r.fdc_id][c]

\* C4 (as claimed): whenever foods_per_100g.csv is written, every valid food has
\* a row in it.
C4_AllValidFoodsOutput ==
    Wrote100g => \A f \in ValidFoods : f \in DOMAIN csv_100g

\* C5 (as claimed): foods_per_100g.csv is never written with zero data rows.
C5_NeverWrittenEmpty ==
    Wrote100g => DOMAIN csv_100g # {}

\* C6: when one of the six required tables is missing the run reports a missing
\* required file (the missing one, when only one is), returns before any later
\* stage and writes nothing, with or without branded_food.csv; when the six are
\* there the run never ends on a missing file, with or without branded_food.csv.
C6_MissingRequiredFile ==
    /\ SixRequiredTables \ present # {} =>
           /\ written = << >>
           /\ pc \in {"start", "returned"}
           /\ ~TablesRead
           /\ all_valid_fdc_ids = {}
           /\ pc = "returned" =>
                  /\ outcome = "missing_file"
                  /\ reported \in SixRequiredTables \ present
    /\ SixRequiredTables \subseteq present =>
           /\ outcome # "missing_file"
           /\ reported = ""

\* C6 happens: only measure_unit.csv is missing, branded_food.csv is there, and
\* the run has returned naming measure_unit.csv.
C6_Witness ==
    /\ pc = "returned"
    /\ present = (SixRequiredTables \cup {"branded_food.csv"}) \ {"measure_unit.csv"}
    /\ reported = "measure_unit.csv"

\* C7 (as claimed): once the tables are read and the run has returned, if no
\* portion record has a valid food id and a defined positive gram_weight, then
\* foods_per_serving.csv is not written, foods_per_100g.csv is written and the
\* run ended as a success.
C7_SkipAsClaimed ==
    (TablesRead /\ pc = "returned" /\ ValidPortions = {}) =>
        /\ ~WroteServing
        /\ Wrote100g
        /\ outcome = "all_done"

\* C7 (amended): the same when at least one food is valid; and whenever
\* foods_per_serving.csv is written, foods_per_100g.csv was written before it.
C7_PerServingSkip ==
    /\ (TablesRead /\ pc = "returned" /\ ValidFoods # {} /\ ValidPortions = {}) =>
           /\ ~WroteServing
           /\ Wrote100g
           /\ outcome = "all_done"
    /\ WroteServing => written = << OUT_100G, OUT_SERVING >>
    /\ written \in {<< >>, << OUT_100G >>, << OUT_100G, OUT_SERVING >>}

\* C7 happens: portions were read for a valid food, none with a defined positive
\* gram_weight, and the run has returned.
C7_Witness ==
    /\ pc = "returned"
    /\ outcome = "all_done"
    /\ ValidPortions = {}
    /\ \E i \in DOMAIN df_portion :
           /\ df_portion[i].fdc_id \in ValidFoods
           /\ df_portion[i].gram_weight = << 0 >>

\* C8: for every valid food and retained column with one or more measurements,
\* the per-100g value is the raw amount of the first such measurement, in input
\* order, times the factor of that measurement's nutrient.
C8_FirstSeenValue ==
    Wrote100g =>
        \A f \in ValidFoods : \A c \in final_nutrient_columns :
            Measured(f, c) =>
                /\ f \in DOMAIN csv_100g
                /\ csv_100g[f][c] = StatedAmount(FirstMeasurement(f, c))

\* C8 happens: two measurements of distinct nutrient ids collide on a retained
\* column of one valid food, with different standardized amounts.
C8_Witness ==
    /\ Wrote100g
    /\ \E f \in ValidFoods : \E c \in final_nutrient_columns :
           \E i, j \in MeasurementsOf(f, c) :
               /\ i < j
               /\ df_food_nutrient[i].nutrient_id # df_food_nutrient[j].nutrient_id
               /\ StatedAmount(i) # StatedAmount(j)

\* C9 (as claimed): a column measured for every food of the wide table is kept
\* by the sparsity filter, a cell of foods_per_100g.csv is -1.0 only where the
\* food has no measurement, and a measured pair is rescaled in every serving row.
C9_SentinelUnambiguous ==
    /\ Wrote100g =>
           /\ \A c \in all_nutrient_columns(df_nutrient) :
                  (\A f \in DOMAIN df_wide_filtered : Measured(f, c))
                      => c \in final_nutrient_columns
           /\ \A f \in DOMAIN csv_100g : \A c \in final_nutrient_columns :
                  csv_100g[f][c] = SENTINEL => ~Measured(f, c)
    /\ WroteServing =>
           \A r \in csv_serving : \A c \in final_nutrient_columns :
               Measured(r.fdc_id, c) =>
                   r.nutrients[c] = Rescaled(csv_100g[r.fdc_id][c], r.serving_size_g)

\* C10 (as claimed): whenever foods_per_serving.csv is written it has a row, and
\* every valid portion has a row in it.
C10_PerServingNeverEmpty ==
    WroteServing =>
        /\ csv_serving # {}
        /\ \A i \in ValidPortions :
               \E r \in csv_serving :
                   /\ r.fdc_id = df_portion[i].fdc_id
                   /\ r.serving_size_g = df_portion[i].gram_weight[1]

====
